---- MODULE Spec2Model ----
(***************************************************************************)
(* SQLSplitter (src/SqlSplitter/sql_splitter.py): a streaming splitter     *)
(* that cuts a SQL dump into numbered files of statements_per_file         *)
(* statements each.                                                        *)
(*                                                                         *)
(* Text is modelled as sequences of one-character strings, so strip(),     *)
(* startswith(), join() and the file-name format are computed as Python    *)
(* computes them.  Time is counted in quarter seconds.                     *)
(***************************************************************************)
EXTENDS Integers, Sequences, FiniteSets, TLC

VARIABLES
    pc,                  \* "main", "loop", "exit0", "exit1"
    statements_per_file, \* self.statements_per_file
    statements,          \* split_sql: the batch
    current_statement,   \* split_sql: lines of the statement being accumulated
    current_file_index,  \* split_sql
    statement_count,     \* split_sql
    processed_size,      \* self.processed_size
    last_progress_time,  \* self.last_progress_time
    start_time,          \* self.start_time
    progress_lines,      \* number of progress lines printed by _update_progress
    summary,             \* what the final statistics block printed
    disk,                \* output directory: set of <<file name, content>>
    now,                 \* last reading of time.time()
    detected,            \* history: statements appended to the batch, in order
    write_calls,         \* history: calls of _write_statements_to_file, in order
    eof,                 \* history: the input was read to its end
    consumed,            \* history: input lines read so far
    run2                 \* a second run on the same input (SpecPair only)

vars == <<pc, statements_per_file, statements, current_statement,
          current_file_index, statement_count, processed_size,
          last_progress_time, start_time, progress_lines, summary, disk, now,
          detected, write_calls, eof, consumed, run2>>

-----------------------------------------------------------------------------
(* Bounds *)

MaxLines == 3       \* input lines read in a run
MaxSPF == 2         \* largest --statements value
MaxClock == 2       \* largest clock reading (quarter seconds)

\* The input lines a file may hold, each with its line terminator: a line of
\* text, a terminated statement, a blank line, an indented "--" comment that
\* holds a semicolon, the first line of a block comment, and a line with
\* two semicolons and text between them.
Lines ==
    { <<"a", "\n">>,
      <<"b", ";", "\n">>,
      <<"\n">>,
      <<" ", "-", "-", ";", "\n">>,
      <<"/", "*", "c", "\n">>,
      <<"c", ";", "d", ";", "\n">> }

SPFValues == (0 - 1)..MaxSPF

-----------------------------------------------------------------------------
(* Text *)

\* the whitespace str.strip() removes, as far as the lines here can hold it
Whitespace == {" ", "\t", "\n", "\r"}

RECURSIVE LStrip(_)
LStrip(s) ==
    IF s # <<>> /\ Head(s) \in Whitespace THEN LStrip(Tail(s)) ELSE s

RECURSIVE RStrip(_)
RStrip(s) ==
    IF s # <<>> /\ s[Len(s)] \in Whitespace
    THEN RStrip(SubSeq(s, 1, Len(s) - 1))
    ELSE s

\* str.strip()
Strip(s) == RStrip(LStrip(s))

\* str.startswith(prefix)
StartsWith(s, prefix) ==
    Len(s) >= Len(prefix) /\ SubSeq(s, 1, Len(prefix)) = prefix

\* c in s
Contains(s, c) == \E i \in 1..Len(s) : s[i] = c

\* sep.join(parts)
RECURSIVE Join(_, _)
Join(sep, parts) ==
    IF parts = <<>> THEN <<>>
    ELSE IF Len(parts) = 1 THEN parts[1]
    ELSE parts[1] \o sep \o Join(sep, Tail(parts))

Digit == <<"0", "1", "2", "3", "4", "5", "6", "7", "8", "9">>

\* str(n) for n >= 0
RECURSIVE Decimal(_)
Decimal(n) ==
    IF n < 10 THEN <<Digit[n + 1]>>
    ELSE Decimal(n \div 10) \o <<Digit[(n % 10) + 1]>>

\* the 0{width}d format
RECURSIVE ZeroPad(_, _)
ZeroPad(digits, width) ==
    IF Len(digits) >= width THEN digits ELSE ZeroPad(<<"0">> \o digits, width)

-----------------------------------------------------------------------------
(* The program.  A run is a record r with one field per variable of the    *)
(* run; the operators below map a run to the run after a piece of code.    *)

ProgressInterval == 2    \* 0.5 s, in quarter seconds

NoSummary == [lines |-> 0, files |-> 0, statements |-> 0]

\* argparse has stored --statements; nothing else has run yet
NewRun(spf) ==
    [ pc |-> "main", statements_per_file |-> spf, statements |-> <<>>,
      current_statement |-> <<>>, current_file_index |-> 0,
      statement_count |-> 0, processed_size |-> 0, last_progress_time |-> 0,
      start_time |-> 0, progress_lines |-> 0, summary |-> NoSummary,
      disk |-> {}, now |-> 0, detected |-> <<>>, write_calls |-> <<>>,
      eof |-> FALSE ]

\* the readings time.time() may return after it returned t
ClockReadings(t) == { u \in t..(t + 1) : u <= MaxClock }

\* what the environment lets one write of an output file do
\* (a write that fails leaves the file empty or holding its first character)
Written == [kind |-> "ok", kept |-> 0]

WriteOutcomes ==
    { Written, [kind |-> "open_fails", kept |-> 0] }
    \cup { [kind |-> "write_fails", kept |-> k] : k \in {0, 1} }

\* SQLSplitter.__init__ and the locals of split_sql.  A missing input file
\* raises FileNotFoundError, which main() turns into exit status 1.  The two
\* clock readings of __init__ fall in the same quarter second.
Construct(r, exists, current_time) ==
    IF ~exists
    THEN [r EXCEPT !.pc = "exit1"]
    ELSE [r EXCEPT !.pc = "loop", !.start_time = current_time,
                   !.last_progress_time = current_time, !.now = current_time]

\* variant: displaying a progress line raises, which ends the run
UpdateProgressAborting(r, line_size, current_time) ==
    IF current_time - r.last_progress_time >= ProgressInterval
    THEN [r EXCEPT !.processed_size = @ + line_size, !.now = current_time,
                   !.pc = "exit1"]
    ELSE [r EXCEPT !.processed_size = @ + line_size, !.now = current_time]

\* SQLSplitter._update_progress
UpdateProgress(r, line_size, current_time) ==
    IF current_time - r.last_progress_time >= ProgressInterval
    THEN [r EXCEPT !.processed_size = @ + line_size, !.now = current_time,
                   !.progress_lines = @ + 1,
                   !.last_progress_time = current_time]
    ELSE [r EXCEPT !.processed_size = @ + line_size, !.now = current_time]

\* variant: only "--" starts a comment
IsCommentLineDashOnly(line) == StartsWith(Strip(line), <<"-", "-">>)

\* line.strip().startswith('--') or line.strip().startswith('/*')
IsCommentLine(line) ==
    \/ StartsWith(Strip(line), <<"-", "-">>)
    \/ StartsWith(Strip(line), <<"/", "*">>)

\* variant: every line ends a statement
HasTerminatorAlways(line) == TRUE

\* ';' in line
HasTerminator(line) == Contains(line, ";")

\* variant: flush only once the batch exceeds the limit
ShouldFlushWhenOver(n, spf) == n > spf

\* len(statements) >= self.statements_per_file
ShouldFlush(n, spf) == n >= spf

\* variant: the name bears file_index, not file_index + 1
OutputFileNameZeroBased(input_filename, file_index) ==
    <<input_filename, "_part">> \o ZeroPad(Decimal(file_index), 3)
        \o <<".sql">>

\* f"{input_filename}_part{file_index+1:03d}.sql"
OutputFileName(input_filename, file_index) ==
    <<input_filename, "_part">> \o ZeroPad(Decimal(file_index + 1), 3)
        \o <<".sql">>

\* open(output_file, 'w') followed by a complete write
Put(d, name, content) ==
    { f \in d : f[1] # name } \cup { <<name, content>> }

Prefix(content, k) ==
    SubSeq(content, 1, IF k < Len(content) THEN k ELSE Len(content))

InputFilename == "stem"    \* Path(self.input_file).stem

\* variant: a failed write is reported and the run goes on
WriteStatementsToFileNoExit(r, batch, input_filename, file_index, wr) ==
    LET name == OutputFileName(input_filename, file_index)
        content == Join(<<"\n", "\n">>, batch)
        call == [name |-> name, batch |-> batch, ok |-> wr.kind = "ok"]
        w == [r EXCEPT !.write_calls = Append(@, call)]
    IN  CASE wr.kind = "ok" ->
               [w EXCEPT !.disk = Put(@, name, content)]
          [] wr.kind = "open_fails" -> w
          [] wr.kind = "write_fails" ->
               [w EXCEPT !.disk = Put(@, name, Prefix(content, wr.kept))]

\* SQLSplitter._write_statements_to_file; sys.exit(1) raises SystemExit,
\* which no "except Exception" of the callers catches
WriteStatementsToFile(r, batch, input_filename, file_index, wr) ==
    LET name == OutputFileName(input_filename, file_index)
        content == Join(<<"\n", "\n">>, batch)
        call == [name |-> name, batch |-> batch, ok |-> wr.kind = "ok"]
        w == [r EXCEPT !.write_calls = Append(@, call)]
    IN  CASE wr.kind = "ok" ->
               [w EXCEPT !.disk = Put(@, name, content)]
          [] wr.kind = "open_fails" ->
               [w EXCEPT !.pc = "exit1"]
          [] wr.kind = "write_fails" ->
               [w EXCEPT !.disk = Put(@, name, Prefix(content, wr.kept)),
                         !.pc = "exit1"]

\* variant: the batch is not cleared after the flush
AfterFlushKeepingBatch(r) ==
    [r EXCEPT !.current_file_index = @ + 1]

\* statements = []; current_file_index += 1
AfterFlush(r) ==
    [r EXCEPT !.statements = <<>>, !.current_file_index = @ + 1]

\* statements.append(statement); statement_count += 1
AppendStatement(r, statement) ==
    [r EXCEPT !.statements = Append(@, statement),
              !.statement_count = @ + 1,
              !.detected = Append(@, statement)]

\* one iteration of the loop over the input lines; a run that the progress
\* update or the write has ended (pc # "loop") executes nothing further
LoopBody(r, line, current_time, wr) ==
    LET p == UpdateProgress(r, Len(line), current_time)
        buffer == Append(p.current_statement, line)
        statement == Strip(Join(<<>>, buffer))
    IN  IF p.pc # "loop" THEN p
        ELSE IF IsCommentLine(line) THEN p
        ELSE IF ~HasTerminator(line)
             THEN [p EXCEPT !.current_statement = buffer]
        ELSE IF statement = <<>>
             THEN [p EXCEPT !.current_statement = <<>>]
        ELSE LET q == AppendStatement(
                          [p EXCEPT !.current_statement = buffer], statement)
             IN  IF ~ShouldFlush(Len(q.statements), q.statements_per_file)
                 THEN [q EXCEPT !.current_statement = <<>>]
                 ELSE LET w == WriteStatementsToFile(q, q.statements,
                                   InputFilename, q.current_file_index, wr)
                      IN  IF w.pc # "loop" THEN w
                          ELSE [AfterFlush(w) EXCEPT
                                    !.current_statement = <<>>]

\* variant: the buffer left at the end of the input is dropped
AppendTrailingNever(r) == r

\* the statement left in the buffer when the input ends
AppendTrailing(r) ==
    LET statement == Strip(Join(<<>>, r.current_statement))
    IN  IF r.current_statement # <<>> /\ statement # <<>>
        THEN AppendStatement(r, statement)
        ELSE r

\* the final statistics; file_size / total_time raises ZeroDivisionError
\* when the clock has not moved since construction
PrintSummary(r, current_time) ==
    IF current_time - r.start_time = 0
    THEN [r EXCEPT !.now = current_time, !.pc = "exit1",
                   !.summary = [NoSummary EXCEPT !.lines = 2]]
    ELSE [r EXCEPT !.now = current_time, !.pc = "exit0",
                   !.summary = [lines |-> 6, files |-> r.current_file_index,
                                statements |-> r.statement_count]]

\* split_sql after the loop
AfterLoop(r, current_time, wr) ==
    LET a == [AppendTrailing(r) EXCEPT !.eof = TRUE]
        w == IF a.statements # <<>>
             THEN WriteStatementsToFile(a, a.statements, InputFilename,
                                        a.current_file_index, wr)
             ELSE a
        b == IF a.statements # <<>> /\ w.pc = "loop"
             THEN [w EXCEPT !.current_file_index = @ + 1]
             ELSE w
    IN  IF b.pc # "loop" THEN b ELSE PrintSummary(b, current_time)

\* an exception while reading the input: print and sys.exit(1)
ReadFailure(r) == [r EXCEPT !.pc = "exit1"]

-----------------------------------------------------------------------------
(* The state machine of one run *)

Self ==
    [ pc |-> pc, statements_per_file |-> statements_per_file,
      statements |-> statements, current_statement |-> current_statement,
      current_file_index |-> current_file_index,
      statement_count |-> statement_count, processed_size |-> processed_size,
      last_progress_time |-> last_progress_time, start_time |-> start_time,
      progress_lines |-> progress_lines, summary |-> summary, disk |-> disk,
      now |-> now, detected |-> detected, write_calls |-> write_calls,
      eof |-> eof ]

Become(r) ==
    /\ pc' = r.pc
    /\ statements_per_file' = r.statements_per_file
    /\ statements' = r.statements
    /\ current_statement' = r.current_statement
    /\ current_file_index' = r.current_file_index
    /\ statement_count' = r.statement_count
    /\ processed_size' = r.processed_size
    /\ last_progress_time' = r.last_progress_time
    /\ start_time' = r.start_time
    /\ progress_lines' = r.progress_lines
    /\ summary' = r.summary
    /\ disk' = r.disk
    /\ now' = r.now
    /\ detected' = r.detected
    /\ write_calls' = r.write_calls
    /\ eof' = r.eof

\* the outcomes to consider in a step: one, unless the step writes a file
OutcomesWhere(writes) == IF writes THEN WriteOutcomes ELSE {Written}

LineWrites(r, line) ==
    r.pc = "loop"
    /\ LoopBody(r, line, r.now, Written).write_calls # r.write_calls

EndWrites(r) ==
    r.pc = "loop"
    /\ AfterLoop(r, r.now, Written).write_calls # r.write_calls

\* a further line can be read
MoreInput == Len(consumed) < MaxLines

Init ==
    /\ statements_per_file \in SPFValues
    /\ pc = "main"
    /\ statements = <<>>
    /\ current_statement = <<>>
    /\ current_file_index = 0
    /\ statement_count = 0
    /\ processed_size = 0
    /\ last_progress_time = 0
    /\ start_time = 0
    /\ progress_lines = 0
    /\ summary = NoSummary
    /\ disk = {}
    /\ now = 0
    /\ detected = <<>>
    /\ write_calls = <<>>
    /\ eof = FALSE
    /\ consumed = <<>>
    /\ run2 = NewRun(statements_per_file)

Main ==
    /\ pc = "main"
    /\ \E exists \in BOOLEAN, t \in ClockReadings(now) :
         LET after == Construct(Self, exists, t) IN Become(after)
    /\ UNCHANGED <<consumed, run2>>

ProcessLine ==
    /\ pc = "loop"
    /\ MoreInput
    /\ \E line \in Lines, t \in ClockReadings(now) :
       \E wr \in OutcomesWhere(LineWrites(Self, line)) :
         /\ LET after == LoopBody(Self, line, t, wr) IN Become(after)
         /\ consumed' = Append(consumed, line)
    /\ UNCHANGED run2

ReadError ==
    /\ pc = "loop"
    /\ LET after == ReadFailure(Self) IN Become(after)
    /\ UNCHANGED <<consumed, run2>>

EndOfInput ==
    /\ pc = "loop"
    /\ \E t \in ClockReadings(now), wr \in OutcomesWhere(EndWrites(Self)) :
         LET after == AfterLoop(Self, t, wr) IN Become(after)
    /\ UNCHANGED <<consumed, run2>>

Next == Main \/ ProcessLine \/ ReadError \/ EndOfInput

Spec == Init /\ [][Next]_vars

-----------------------------------------------------------------------------
(* Two runs on the same input, with the same --statements value and the    *)
(* same disk behaviour.  The variables hold the first run, whose clock is  *)
(* free; run2 is the run whose clock stands still, so that its reporter    *)
(* never displays a progress line.  Both read the same line in each step.  *)
(* Two runs that each agree with run2 agree with each other.               *)

IfRunning(r, after) == IF r.pc = "loop" THEN after ELSE r

PairMain ==
    /\ pc = "main"
    /\ \E exists \in BOOLEAN :
         /\ \E t \in ClockReadings(now) :
               LET after == Construct(Self, exists, t) IN Become(after)
         /\ run2' = Construct(run2, exists, run2.now)
    /\ UNCHANGED consumed

PairProcessLine ==
    /\ pc = "loop" \/ run2.pc = "loop"
    /\ MoreInput
    /\ \E line \in Lines :
       \E wr \in OutcomesWhere(LineWrites(Self, line)
                                \/ LineWrites(run2, line)) :
         /\ \E t \in ClockReadings(now) :
               LET after == IfRunning(Self, LoopBody(Self, line, t, wr))
               IN  Become(after)
         /\ run2' = IfRunning(run2, LoopBody(run2, line, run2.now, wr))
         /\ consumed' = Append(consumed, line)

PairReadError ==
    /\ pc = "loop" \/ run2.pc = "loop"
    /\ LET after == IfRunning(Self, ReadFailure(Self)) IN Become(after)
    /\ run2' = IfRunning(run2, ReadFailure(run2))
    /\ UNCHANGED consumed

PairEndOfInput ==
    /\ pc = "loop" \/ run2.pc = "loop"
    /\ \E wr \in OutcomesWhere(EndWrites(Self) \/ EndWrites(run2)) :
         /\ \E t \in ClockReadings(now) :
               LET after == IfRunning(Self, AfterLoop(Self, t, wr))
               IN  Become(after)
         /\ run2' = IfRunning(run2, AfterLoop(run2, run2.now, wr))
    /\ UNCHANGED consumed

NextPair == PairMain \/ PairProcessLine \/ PairReadError \/ PairEndOfInput

SpecPair == Init /\ [][NextPair]_vars

-----------------------------------------------------------------------------
(* Reading the output directory back *)

\* the lines of a text, each with its line terminator, as "for line in f"
\* yields them
RECURSIVE SplitLines(_, _)
SplitLines(text, line) ==
    IF text = <<>> THEN (IF line = <<>> THEN <<>> ELSE <<line>>)
    ELSE IF Head(text) = "\n"
         THEN <<Append(line, "\n")>> \o SplitLines(Tail(text), <<>>)
         ELSE SplitLines(Tail(text), Append(line, Head(text)))

\* the statements the boundary detection of split_sql finds in a sequence of
\* lines, as a function of the lines alone
RECURSIVE Detect(_, _)
Detect(lines, buffer) ==
    IF lines = <<>>
    THEN IF buffer # <<>> /\ Strip(Join(<<>>, buffer)) # <<>>
         THEN <<Strip(Join(<<>>, buffer))>>
         ELSE <<>>
    ELSE IF IsCommentLine(Head(lines)) THEN Detect(Tail(lines), buffer)
    ELSE IF ~HasTerminator(Head(lines))
         THEN Detect(Tail(lines), Append(buffer, Head(lines)))
    ELSE LET statement == Strip(Join(<<>>, Append(buffer, Head(lines))))
         IN  (IF statement # <<>> THEN <<statement>> ELSE <<>>)
                 \o Detect(Tail(lines), <<>>)

\* the statements of one output file
StatementsOf(content) == Detect(SplitLines(content, <<>>), <<>>)

DigitValue(c) == CHOOSE v \in 0..9 : Digit[v + 1] = c

RECURSIVE ParseDecimal(_)
ParseDecimal(digits) ==
    IF digits = <<>> THEN 0
    ELSE 10 * ParseDecimal(SubSeq(digits, 1, Len(digits) - 1))
             + DigitValue(digits[Len(digits)])

\* the index in a file name {stem}_part{NNN}.sql
IndexOf(name) == ParseDecimal(SubSeq(name, 3, Len(name) - 1))

\* the statements of the files of d, by increasing index
RECURSIVE ReadBack(_)
ReadBack(d) ==
    IF d = {} THEN <<>>
    ELSE LET first == CHOOSE f \in d :
                          \A g \in d : IndexOf(f[1]) <= IndexOf(g[1])
         IN  StatementsOf(first[2]) \o ReadBack(d \ {first})

\* the name the k-th output file must bear, for k < 10
PartName(k) == <<"stem", "_part", "0", "0", Digit[k + 1], ".sql">>

ContentOf(d, name) == (CHOOSE f \in d : f[1] = name)[2]

Completed == pc = "exit0"

CommentLines == { <<" ", "-", "-", ";", "\n">>, <<"/", "*", "c", "\n">> }

TerminatedLines == { <<"b", ";", "\n">>, <<"c", ";", "d", ";", "\n">> }

\* this step reads an input line
ReadsLine == Len(consumed') = Len(consumed) + 1

LineRead == consumed'[Len(consumed')]

-----------------------------------------------------------------------------
(* Claims *)

\* C1: after a completed run with a positive statements_per_file, the
\* statements read back from the output files, by increasing file index and
\* in file order, are the statements the boundary detection finds in the
\* input, in input order: none lost, none twice, none out of order.
StatementsPreserved ==
    (Completed /\ statements_per_file > 0) =>
        /\ ReadBack(disk) = Detect(consumed, <<>>)
        /\ detected = Detect(consumed, <<>>)

StatementsPreservedWitness ==
    /\ Completed
    /\ statements_per_file = 1
    /\ Cardinality(disk) = 2
    /\ Len(detected) = 2
    /\ \E i \in 1..Len(detected) : Contains(detected[i], "\n")

\* C2: after a completed run with a positive statements_per_file, every file
\* but the last holds exactly statements_per_file statements, the last holds
\* between 1 and statements_per_file, and no file exists when no statement
\* was found; with statements_per_file = 1, k statements give k files of one.
BatchSizes ==
    (Completed /\ statements_per_file > 0) =>
        LET n == Len(write_calls) IN
        /\ Cardinality(disk) = n
        /\ \A k \in 1..n :
              LET call == write_calls[k]
                  held == Len(StatementsOf(ContentOf(disk, PartName(k))))
              IN  /\ \E f \in disk : f[1] = PartName(k)
                  /\ held = Len(call.batch)
                  /\ k < n => held = statements_per_file
                  /\ k = n => held >= 1 /\ held <= statements_per_file
        /\ detected = <<>> <=> disk = {}
        /\ statements_per_file = 1 => n = Len(detected)

BatchSizesWitness ==
    /\ Completed
    /\ statements_per_file = 2
    /\ Len(detected) = 3
    /\ Len(write_calls) = 2
    /\ Len(write_calls[2].batch) = 1

\* C3: the k-th call of _write_statements_to_file writes {stem}_part{k}.sql
\* with k zero-padded to three digits at least, so that the names run 1, 2,
\* ..., N without gap or repetition, and the summary reports N files.
SequentialNames ==
    /\ \A k \in 1..Len(write_calls) :
          /\ write_calls[k].name = PartName(k)
          /\ IndexOf(write_calls[k].name) = k
    /\ \A f \in disk : \E k \in 1..Len(write_calls) : f[1] = PartName(k)
    /\ Completed =>
          /\ summary.files = Len(write_calls)
          /\ { f[1] : f \in disk } = { PartName(k) : k \in 1..summary.files }
    /\ OutputFileName("stem", 41) = <<"stem", "_part", "0", "4", "2", ".sql">>
    /\ OutputFileName("stem", 999)
           = <<"stem", "_part", "1", "0", "0", "0", ".sql">>

SequentialNamesWitness ==
    /\ Completed
    /\ summary.files = 3
    /\ Cardinality(disk) = 3

\* C4: with statements_per_file zero or negative the run ends in an error
\* without batching a statement and without writing a file.
NonPositiveFailsFast ==
    statements_per_file <= 0 =>
        /\ pc # "exit0"
        /\ detected = <<>>
        /\ write_calls = <<>>
        /\ disk = {}

\* C5: a failed write ends the run with exit status 1: no line is read and
\* no file written after it, no summary is printed, and the files written
\* before it keep their content.
WriteFailed == \E k \in 1..Len(write_calls) : ~write_calls[k].ok

WriteFailureAborts ==
    /\ [](WriteFailed =>
             /\ pc = "exit1"
             /\ summary = NoSummary
             /\ \A k \in 1..(Len(write_calls) - 1) :
                   /\ write_calls[k].ok
                   /\ <<write_calls[k].name,
                        Join(<<"\n", "\n">>, write_calls[k].batch)>> \in disk)
    /\ [][WriteFailed => UNCHANGED vars]_vars

WriteFailureAbortsWitness ==
    /\ WriteFailed
    /\ Len(write_calls) = 2
    /\ Len(consumed) < MaxLines
    /\ ~eof

\* C6 as stated: a comment line changes nothing of the splitter but the
\* progress byte count, also when it holds a semicolon; no statement holds
\* such a line; "-- comment" then "SELECT 1;" gives the one statement.
CommentStep == ReadsLine /\ pc = "loop" /\ LineRead \in CommentLines

NoCommentInStatements ==
    \A i \in 1..Len(detected) :
        /\ ~Contains(detected[i], "-")
        /\ ~Contains(detected[i], "*")
        /\ ~Contains(detected[i], "/")

CommentExample ==
    ( /\ Completed
      /\ statements_per_file > 0
      /\ consumed = << <<" ", "-", "-", ";", "\n">>, <<"b", ";", "\n">> >> )
    => /\ detected = << <<"b", ";">> >>
       /\ disk = { <<PartName(1), <<"b", ";">>>> }

CommentLineOnlyCounts ==
    /\ [][CommentStep =>
            /\ processed_size' = processed_size + Len(LineRead)
            /\ UNCHANGED <<pc, statements_per_file, statements,
                           current_statement, current_file_index,
                           statement_count, last_progress_time, start_time,
                           summary, disk, detected, write_calls, eof>>]_vars
    /\ [](NoCommentInStatements /\ CommentExample)

\* C6 as amended: a comment line changes nothing of the splitter but the
\* reporter's state, that is the progress byte count and, when a progress
\* line is displayed, the time of the last report.
CommentLineSkipped ==
    /\ [][CommentStep =>
            /\ processed_size' = processed_size + Len(LineRead)
            /\ \/ UNCHANGED <<last_progress_time, progress_lines>>
               \/ /\ progress_lines' = progress_lines + 1
                  /\ last_progress_time' = now'
                  /\ now' - last_progress_time >= ProgressInterval
            /\ UNCHANGED <<pc, statements_per_file, statements,
                           current_statement, current_file_index,
                           statement_count, start_time,
                           summary, disk, detected, write_calls, eof>>]_vars
    /\ [](NoCommentInStatements /\ CommentExample)

CommentLineSkippedWitness ==
    /\ Len(consumed) >= 2
    /\ consumed[Len(consumed)] = <<" ", "-", "-", ";", "\n">>
    /\ consumed[Len(consumed) - 1] = <<"a", "\n">>
    /\ current_statement = << <<"a", "\n">> >>
    /\ progress_lines = 1
    /\ last_progress_time = now
    /\ pc = "loop"

\* C7: at the end of the input the lines left in the buffer, joined and
\* trimmed, become the last statement of the batch if that text is not
\* empty, and are written to the last file and counted; otherwise nothing is
\* appended.  "SELECT 1;" then "SELECT 2" gives these two statements.
InputEnds == eof' /\ ~eof

TrailingText == Strip(Join(<<>>, current_statement))

TrailingExample ==
    ( /\ Completed
      /\ statements_per_file > 0
      /\ consumed = << <<"b", ";", "\n">>, <<"a", "\n">> >> )
    => /\ detected = << <<"b", ";">>, <<"a">> >>
       /\ ReadBack(disk) = << <<"b", ";">>, <<"a">> >>
       /\ summary.statements = 2

TrailingStatementKept ==
    /\ [][InputEnds =>
            IF TrailingText # <<>>
            THEN /\ detected' = Append(detected, TrailingText)
                 /\ statements' = Append(statements, TrailingText)
                 /\ statement_count' = statement_count + 1
                 /\ write_calls' # write_calls
                 /\ LET call == write_calls'[Len(write_calls')]
                    IN  /\ call.batch = statements'
                        /\ call.ok =>
                             <<call.name, Join(<<"\n", "\n">>, call.batch)>>
                                 \in disk'
            ELSE /\ detected' = detected
                 /\ statements' = statements
                 /\ statement_count' = statement_count]_vars
    /\ []TrailingExample

TrailingStatementKeptWitness ==
    /\ Completed
    /\ statements_per_file = 2
    /\ consumed = << <<"b", ";", "\n">>, <<"a", "\n">>, <<"\n">> >>
    /\ disk = { <<PartName(1), <<"b", ";", "\n", "\n", "a">>>> }

\* C8: the files a run writes do not depend on the reporter: a run writes
\* the same files, with the same names and contents and in the same order,
\* as the run on the same input whose reporter never displays anything.
SameFiles ==
    /\ disk = run2.disk
    /\ Len(write_calls) = Len(run2.write_calls)
    /\ \A k \in 1..Len(write_calls) : write_calls[k] = run2.write_calls[k]

SameFilesWitness ==
    /\ pc = "exit0"
    /\ run2.pc = "exit1"
    /\ progress_lines > 0
    /\ run2.progress_lines = 0
    /\ processed_size = run2.processed_size
    /\ Cardinality(disk) >= 2

\* C9: a line yields at most one statement.  A line that is no comment and
\* holds a semicolon ends the statement: the buffer with that whole line,
\* joined and trimmed, is emitted as one statement and the buffer is
\* cleared.  So the loop emits no more statements than there are such lines,
\* and each statement it emits holds a semicolon.
TerminatedRead ==
    Cardinality({ i \in 1..Len(consumed) : consumed[i] \in TerminatedLines })

OneStatementPerLine ==
    /\ [][ReadsLine =>
            /\ Len(detected') <= Len(detected) + 1
            /\ (pc = "loop" /\ LineRead \in TerminatedLines) =>
                  /\ detected' = Append(detected,
                         Strip(Join(<<>>, Append(current_statement, LineRead))))
                  /\ pc' = "loop" => current_statement' = <<>>
            /\ (pc = "loop" /\ LineRead \notin TerminatedLines) =>
                  detected' = detected]_vars
    /\ [](~eof =>
            /\ Len(detected) <= TerminatedRead
            /\ \A i \in 1..Len(detected) : Contains(detected[i], ";"))

OneStatementPerLineWitness ==
    /\ pc = "loop"
    /\ consumed = << <<"a", "\n">>, <<"c", ";", "d", ";", "\n">> >>
    /\ detected = << <<"a", "\n", "c", ";", "d", ";">> >>
    /\ current_statement = <<>>

\* C10: with a positive statements_per_file the batch never holds more than
\* statements_per_file statements, and holds fewer whenever a line has been
\* processed and the loop goes on.
BatchBounded ==
    statements_per_file > 0 =>
        /\ Len(statements) <= statements_per_file
        /\ pc = "loop" => Len(statements) < statements_per_file

BatchBoundedWitness ==
    /\ pc = "loop"
    /\ statements_per_file = 2
    /\ Len(statements) = 1
    /\ Len(write_calls) = 1

====
